---- MODULE Spec2Model ----
(***************************************************************************)
(* A model of run/solidificationTest/read_thermocalc.py: the script that   *)
(* reads a ThermoCalc table, removes duplicated temperature rows, finds    *)
(* the solidus/liquidus bracket, fits composition paths and estimates the  *)
(* single-phase freezing range.                                            *)
(*                                                                         *)
(* Numbers.  A float is modelled as an extended rational [n, d]:           *)
(*   d > 0   the finite value n/d in lowest terms,                         *)
(*   d = 0   n = 1: +inf, n = -1: -inf, n = 0: NaN (a missing field).      *)
(* Arithmetic on them is exact; numpy's rules for inf and NaN are kept.    *)
(* Binary64 rounding is not modelled.                                      *)
(*                                                                         *)
(* Not modelled: the figure (step 6 and the plot calls of step 7) and the  *)
(* Schaeffler estimate (step 9).                                           *)
(***************************************************************************)
EXTENDS Integers, Sequences, FiniteSets, TLC

VARIABLES
    pc,        \* position in the script
    txtfile,   \* rows of the input file, as np.genfromtxt reads them
    columns,   \* header fields of the input file
    data,      \* the table (T is its first column: T = data[:,0] is a view)
    uniq, ind, cnt, todo,  \* np.unique's results and the groups left to visit
    argv,      \* the command line as given
    args,      \* the parsed arguments (the script assigns to args.T and args.T0)
    i,         \* index of the column a loop is at
    sol, liq, deltaT,
    out,       \* console lines printed so far
    err,       \* the exception that ended the run, or "none"
    elements, phases, sums, C, slopes,
    ranges     \* per-phase K, DeltaT1, DeltaT2 printed by step 8

vars == <<pc, txtfile, columns, data, uniq, ind, cnt, todo, argv, args, i, sol, liq,
          deltaT, out, err, elements, phases, sums, C, slopes, ranges>>

----------------------------------------------------------------------------
(* Extended rationals *)

Abs(x) == IF x < 0 THEN -x ELSE x

RECURSIVE Gcd(_, _)
Gcd(a, b) == IF b = 0 THEN a ELSE Gcd(b, a % b)

Norm(n, d) ==
    IF d = 0 THEN [n |-> IF n > 0 THEN 1 ELSE IF n < 0 THEN -1 ELSE 0, d |-> 0]
    ELSE LET s == IF d < 0 THEN -1 ELSE 1
             g == Gcd(Abs(n), Abs(d))
         IN  [n |-> (s * n) \div g, d |-> (s * d) \div g]

R(n, d) == Norm(n, d)
NaN == [n |-> 0, d |-> 0]
Inf == [n |-> 1, d |-> 0]
Zero == [n |-> 0, d |-> 1]
One == [n |-> 1, d |-> 1]

isnan(x) == x.d = 0 /\ x.n = 0

RAdd(a, b) ==
    IF isnan(a) \/ isnan(b) THEN NaN
    ELSE IF a.d = 0 /\ b.d = 0 THEN (IF a.n = b.n THEN a ELSE NaN)
    ELSE IF a.d = 0 THEN a
    ELSE IF b.d = 0 THEN b
    ELSE Norm(a.n * b.d + b.n * a.d, a.d * b.d)

RNeg(a) == [n |-> -a.n, d |-> a.d]
RSub(a, b) == RAdd(a, RNeg(b))

RMul(a, b) ==
    IF isnan(a) \/ isnan(b) THEN NaN
    ELSE IF (a.d = 0 /\ b.n = 0) \/ (b.d = 0 /\ a.n = 0) THEN NaN
    ELSE Norm(a.n * b.n, a.d * b.d)

\* 1/x; a zero is +0.0 wherever the script divides by one (a sum started at 0)
RInv(a) ==
    IF isnan(a) THEN NaN
    ELSE IF a.d = 0 THEN Zero
    ELSE IF a.n = 0 THEN Inf
    ELSE Norm(a.d, a.n)

RDiv(a, b) == RMul(a, RInv(b))

\* a < b as IEEE compares: false when either side is NaN
RLess(a, b) ==
    /\ ~isnan(a) /\ ~isnan(b)
    /\ IF a.d = 0 /\ b.d = 0 THEN a.n < b.n
       ELSE IF a.d = 0 THEN a.n < 0
       ELSE IF b.d = 0 THEN b.n > 0
       ELSE a.n * b.d < b.n * a.d

RLeq(a, b) == ~isnan(a) /\ ~isnan(b) /\ (a = b \/ RLess(a, b))

----------------------------------------------------------------------------
(* Sequences *)

Elems(s) == {s[k] : k \in 1..Len(s)}

SeqsUpTo(S, n) == UNION {[1..m -> S] : m \in 0..n}

\* the indices k >= k0 of b with b[k], ascending (np.where / np.argwhere)
RECURSIVE Where(_, _)
Where(b, k) ==
    IF k > Len(b) THEN <<>>
    ELSE (IF b[k] THEN <<k>> ELSE <<>>) \o Where(b, k + 1)

Column(d, c) == [k \in 1..Len(d) |-> d[k][c]]

NoneVal == <<>>
Some(x) == <<x>>

----------------------------------------------------------------------------
(* The input file and the command line *)

MaxRawRows == 3

\* Range = namedtuple('Range', 'min, max')
Range(lo, hi) == [min |-> lo, max |-> hi]

\* a header field, as the patterns of class Regex see it: the text matched by
\* the pattern's groups (a unit is kept character by character)
TemperatureHeader(u) == [kind |-> "temperature", unit |-> u]
PhaseMolHeader(p) == [kind |-> "phase_mol", phase |-> p]
MassPctHeader(e, p) == [kind |-> "masspct", elem |-> e, phase |-> p]
GramHeader(e, p) == [kind |-> "gram", elem |-> e, phase |-> p]

\* Regex.temperature.findall(c): the list of the texts between the brackets
Regex_temperature_findall(c) ==
    IF c.kind = "temperature" THEN <<c.unit>> ELSE <<>>

parse_phase_fraction(c) ==
    IF c.kind = "phase_mol" THEN Some(c.phase) ELSE NoneVal

parse_element_content(c) ==
    IF c.kind \in {"masspct", "gram"} THEN Some(<<c.elem, c.phase>>) ELSE NoneVal

\* 'C' in tunit, tunit a list of strings: some item of the list is the string 'C'
C_in_tunit(tunit) == \E k \in 1..Len(tunit) : tunit[k] = <<"C">>

Units == {<<"K">>, <<"C">>, <<"d", "e", "g", "C">>}
HeaderLines ==
    {<<TemperatureHeader(u), PhaseMolHeader("LIQUID")>> : u \in Units}
        \cup {<<TemperatureHeader(<<"K">>), PhaseMolHeader("FCC_A1")>>}

\* a reference temperature: the value v - eps/1e10
Temp0(v, eps) == [v |-> v, eps |-> eps]

\* parser.parse_args(): -T keeps its default, -T0, --tail and --manual vary
CommandLines ==
    [T : {Range(R(1600, 1), R(1800, 1))},
     T0 : {NoneVal, Some(Temp0(Zero, Zero)), Some(Temp0(R(1725, 1), Zero))},
     tail : {R(-1, 2), Zero, R(1, 2)},
     manual : BOOLEAN,
     base : {"Fe"},
     skip_phases : {{}}]

RawTemps == {R(1650, 1), R(1680, 1), R(1700, 1)}
RawRows == {<<t, a>> : t \in RawTemps, a \in {NaN, R(1, 2), One}}

----------------------------------------------------------------------------
(* 1. Read and sort the data *)

Temperatures(d) == {d[k][1] : k \in 1..Len(d)}

RECURSIVE SortSet(_)
SortSet(S) ==
    IF S = {} THEN <<>>
    ELSE LET m == CHOOSE x \in S : \A y \in S : RLeq(x, y)
         IN  <<m>> \o SortSet(S \ {m})

\* np.unique(T, return_index=True, return_counts=True)
np_unique(d) == SortSet(Temperatures(d))
FirstIndex(d, t) ==
    CHOOSE k \in 1..Len(d) : d[k][1] = t /\ \A j \in 1..(k - 1) : d[j][1] # t
np_unique_index(d) == [k \in 1..Len(np_unique(d)) |-> FirstIndex(d, np_unique(d)[k])]
np_unique_counts(d) ==
    [k \in 1..Len(np_unique(d)) |->
        Cardinality({r \in 1..Len(d) : d[r][1] = np_unique(d)[k]})]

\* np.count_nonzero(~np.isnan(row))
CountNonMissing(row) == Cardinality({c \in 1..Len(row) : ~isnan(row[c])})

\* np.argmax over the rows lo..hi of d (a Python slice: cut at the end of the
\* table): the offset, from lo, of the first row with the most non-missing fields
ArgmaxNonMissing(d, lo, hi) ==
    LET top == IF hi > Len(d) THEN Len(d) ELSE hi
        best == CHOOSE k \in lo..top :
                  /\ \A j \in lo..top : CountNonMissing(d[j]) <= CountNonMissing(d[k])
                  /\ \A j \in lo..(k - 1) : CountNonMissing(d[j]) < CountNonMissing(d[k])
    IN  best - lo

NotAnalyzed ==
    /\ i = 0
    /\ sol = NoneVal /\ liq = NoneVal /\ deltaT = NoneVal
    /\ out = <<>> /\ err = "none"

NotFitted ==
    /\ elements = <<>> /\ phases = <<>> /\ sums = <<>>
    /\ C = <<>> /\ slopes = <<>> /\ ranges = <<>>

NotDeduplicated == uniq = <<>> /\ ind = <<>> /\ cnt = <<>> /\ todo = <<>>

\* the script after lines 25-51: arguments parsed, header and table read
Init ==
    /\ pc = "unique"
    /\ argv \in CommandLines
    /\ args = argv
    /\ columns \in HeaderLines
    /\ txtfile \in SeqsUpTo(RawRows, MaxRawRows) \ {<<>>}
    /\ data = txtfile
    /\ NotDeduplicated /\ NotAnalyzed /\ NotFitted

\* line 54
Unique ==
    /\ pc = "unique"
    /\ uniq' = np_unique(data)
    /\ ind' = np_unique_index(data)
    /\ cnt' = np_unique_counts(data)
    /\ todo' = Where([k \in 1..Len(np_unique(data)) |-> np_unique_counts(data)[k] > 1], 1)
    /\ pc' = "dedup"
    /\ UNCHANGED <<txtfile, columns, data, argv, args, i, sol, liq, deltaT, out, err,
                   elements, phases, sums, C, slopes, ranges>>

\* lines 55-57: one pass of the loop over the duplicated temperatures
DedupPick ==
    /\ pc = "dedup" /\ todo # <<>>
    /\ LET g == Head(todo)
           j == ArgmaxNonMissing(data, ind[g], ind[g] + cnt[g] - 1)
       IN  ind' = [ind EXCEPT ![g] = @ + j]
    /\ todo' = Tail(todo)
    /\ UNCHANGED <<pc, txtfile, columns, data, uniq, cnt, argv, args, i, sol, liq, deltaT,
                   out, err, elements, phases, sums, C, slopes, ranges>>

\* lines 58-59
Reindex ==
    /\ pc = "dedup" /\ todo = <<>>
    /\ data' = [k \in 1..Len(ind) |-> data[ind[k]]]
    /\ pc' = "analyze"
    /\ i' = 1
    /\ UNCHANGED <<txtfile, columns, uniq, ind, cnt, todo, argv, args, sol, liq, deltaT,
                   out, err, elements, phases, sums, C, slopes, ranges>>

Deduplicated == pc = "analyze" /\ i = 1

----------------------------------------------------------------------------
(* 2. Analyze phase fractions *)

\* 273.15
KelvinOffset == R(5463, 20)

\* lines 64-66: T += 273.15 writes through the view T into data[:,0]
Converted(c, d) ==
    LET tunit == Regex_temperature_findall(c)
    IN  IF tunit # <<>> /\ C_in_tunit(tunit)
        THEN [k \in 1..Len(d) |-> [d[k] EXCEPT ![1] = RAdd(@, KelvinOffset)]]
        ELSE d

\* np.argwhere(np.isnan(data[:,i]) == True)
MissingRows(d, c) == Where([k \in 1..Len(d) |-> isnan(d[k][c])], 1)

\* np.argwhere(data[:,i] == 1)
FullRows(d, c) == Where([k \in 1..Len(d) |-> d[k][c] = One], 1)

\* line 71 with [0] for [-1]
SolidusFirst(d, c) == d[MissingRows(d, c)[1]][1]

\* line 71: T[np.argwhere(...)[-1][0]]
Solidus(d, c) == d[MissingRows(d, c)[Len(MissingRows(d, c))]][1]

\* line 72: T[np.argwhere(...)[0][0]]
Liquidus(d, c) == d[FullRows(d, c)[1]][1]

\* line 76
AutoWindow(s, l, dT, tail) ==
    Range(RSub(s, RMul(dT, tail)), RAdd(l, RMul(dT, tail)))

\* line 78 without the offset
AutoT0NoOffset(l, dT) == Temp0(l, Zero)

\* line 78: liq - deltaT/1e10
AutoT0(l, dT) == Temp0(l, dT)

\* line 80
Midpoint(w) == Temp0(RDiv(RAdd(w.min, w.max), R(2, 1)), Zero)

\* the truth value Python gives args.T0: None and 0.0 are false
Truthy(t0) == t0 # NoneVal /\ ~(t0[1].v = Zero /\ t0[1].eps = Zero)

\* lines 75-78
Derived(a, s, l, dT) ==
    IF ~a.manual
    THEN [a EXCEPT !.T = AutoWindow(s, l, dT, a.tail),
                   !.T0 = IF ~Truthy(a.T0) THEN Some(AutoT0(l, dT)) ELSE a.T0]
    ELSE a

\* lines 63-78 for the LIQUID column, both argwhere results non-empty
AnalyzeLiquid ==
    /\ pc = "analyze" /\ i <= Len(columns)
    /\ parse_phase_fraction(columns[i]) = Some("LIQUID")
    /\ LET d == Converted(columns[i], data)
       IN  /\ MissingRows(d, i) # <<>> /\ FullRows(d, i) # <<>>
           /\ data' = d
           /\ sol' = Some(Solidus(d, i))
           /\ liq' = Some(Liquidus(d, i))
           /\ deltaT' = Some(RSub(Liquidus(d, i), Solidus(d, i)))
           /\ args' = Derived(args, Solidus(d, i), Liquidus(d, i),
                              RSub(Liquidus(d, i), Solidus(d, i)))
    /\ out' = Append(out, "Solidus")
    /\ i' = i + 1
    /\ UNCHANGED <<pc, txtfile, columns, uniq, ind, cnt, todo, argv, err,
                   elements, phases, sums, C, slopes, ranges>>

\* lines 71-72 when an argwhere result is empty: [-1] or [0] raises IndexError
AnalyzeLiquidFails ==
    /\ pc = "analyze" /\ i <= Len(columns)
    /\ parse_phase_fraction(columns[i]) = Some("LIQUID")
    /\ LET d == Converted(columns[i], data)
       IN  /\ MissingRows(d, i) = <<>> \/ FullRows(d, i) = <<>>
           /\ data' = d
    /\ err' = "IndexError"
    /\ pc' = "failed"
    /\ UNCHANGED <<txtfile, columns, uniq, ind, cnt, todo, argv, args, i, sol, liq,
                   deltaT, out, elements, phases, sums, C, slopes, ranges>>

\* lines 63-69 for any other column
AnalyzeColumn ==
    /\ pc = "analyze" /\ i <= Len(columns)
    /\ parse_phase_fraction(columns[i]) # Some("LIQUID")
    /\ data' = Converted(columns[i], data)
    /\ i' = i + 1
    /\ UNCHANGED <<pc, txtfile, columns, uniq, ind, cnt, todo, argv, args, sol, liq,
                   deltaT, out, err, elements, phases, sums, C, slopes, ranges>>

\* lines 79-81
ReportWindow ==
    /\ pc = "analyze" /\ i > Len(columns)
    /\ args' = IF ~Truthy(args.T0) THEN [args EXCEPT !.T0 = Some(Midpoint(args.T))]
               ELSE args
    /\ out' = Append(out, "Tmin")
    /\ pc' = "filter"
    /\ UNCHANGED <<txtfile, columns, data, uniq, ind, cnt, todo, argv, i, sol, liq,
                   deltaT, err, elements, phases, sums, C, slopes, ranges>>

(* 3. Filter the data *)

\* line 84
InWindow(row, w) == RLess(w.min, row[1]) /\ RLess(row[1], w.max)

Filter ==
    /\ pc = "filter"
    /\ data' = SelectSeq(data, LAMBDA row : InWindow(row, args.T))
    /\ pc' = "filtered"
    /\ UNCHANGED <<txtfile, columns, uniq, ind, cnt, todo, argv, args, i, sol, liq,
                   deltaT, out, err, elements, phases, sums, C, slopes, ranges>>

Next ==
    \/ Unique \/ DedupPick \/ Reindex
    \/ AnalyzeLiquid \/ AnalyzeLiquidFails \/ AnalyzeColumn \/ ReportWindow
    \/ Filter

Spec == Init /\ [][Next]_vars

(* The interval selector alone, from any table the deduplication can leave *)

MaxRows == 2

\* scenario B of the specification
ScenarioB ==
    << <<R(1600, 1), NaN>>, <<R(1650, 1), NaN>>, <<R(1680, 1), R(1, 2)>>,
       <<R(1700, 1), One>>, <<R(1750, 1), One>> >>

InitInterval ==
    /\ pc = "analyze"
    /\ i = 1
    /\ argv \in CommandLines
    /\ args = argv
    /\ columns \in HeaderLines
    /\ data \in (SeqsUpTo(RawRows, MaxRows) \ {<<>>}) \cup {ScenarioB}
    /\ txtfile = data
    /\ NotDeduplicated /\ NotFitted
    /\ sol = NoneVal /\ liq = NoneVal /\ deltaT = NoneVal
    /\ out = <<>> /\ err = "none"

NextInterval ==
    \/ AnalyzeLiquid \/ AnalyzeLiquidFails \/ AnalyzeColumn \/ ReportWindow
    \/ Filter

SpecInterval == InitInterval /\ [][NextInterval]_vars

----------------------------------------------------------------------------
(* 4. Extract phases and elements.  The figure (steps 6 and the plot calls of
      step 7) is not modelled. *)

\* lines 88-96: the lists after the columns k.. have been visited
RECURSIVE ExtractFrom(_, _, _, _, _)
ExtractFrom(cols, d, skip, k, acc) ==
    IF k > Len(cols) THEN acc
    ELSE LET res == parse_element_content(cols[k])
         IN  IF res = NoneVal THEN ExtractFrom(cols, d, skip, k + 1, acc)
             ELSE LET elem == res[1][1]
                      phase == res[1][2]
                      els == IF elem \in Elems(acc.elements) THEN acc.elements
                             ELSE Append(acc.elements, elem)
                      phs == IF /\ phase \notin Elems(acc.phases)
                                /\ phase \notin skip
                                /\ \E r \in 1..Len(d) : ~isnan(d[r][k])
                             THEN Append(acc.phases, phase)
                             ELSE acc.phases
                  IN  ExtractFrom(cols, d, skip, k + 1, [elements |-> els, phases |-> phs])

Extracted(cols, d, skip) ==
    ExtractFrom(cols, d, skip, 1, [elements |-> <<>>, phases |-> <<>>])

\* line 97: elements.remove(args.base)
Remove(els, b) == SelectSeq(els, LAMBDA e : e # b)

(* 5. Compute normalization factors *)

\* lines 103-108: sums[phase], the columns of the phase added row by row
RECURSIVE PhaseSum(_, _, _, _)
PhaseSum(cols, d, phase, k) ==
    IF k = 0 THEN [r \in 1..Len(d) |-> Zero]
    ELSE LET rest == PhaseSum(cols, d, phase, k - 1)
             res == parse_element_content(cols[k])
         IN  IF res # NoneVal /\ res[1][2] = phase
             THEN [r \in 1..Len(d) |-> RAdd(rest[r], d[r][k])]
             ELSE rest

Normalized(cols, d, phs) ==
    [p \in Elems(phs) |-> PhaseSum(cols, d, p, Len(cols))]

(* 7. Find slopes *)

StrictlyIncreasing(X) == \A k \in 1..(Len(X) - 1) : RLess(X[k], X[k + 1])

\* interpolate.UnivariateSpline(X, Y, k=1, s=0) raises unless it is given more
\* than k points with strictly increasing X
SplineAccepts(X) == Len(X) > 1 /\ StrictlyIncreasing(X)

\* the linear piece a degree-1 spline uses at x: the last one starting at or
\* before x, the first or the last piece outside the data
Piece(X, x) ==
    LET at == {k \in 1..(Len(X) - 1) : RLeq(X[k], x)}
    IN  IF at = {} THEN 1 ELSE CHOOSE k \in at : \A j \in at : j <= k

\* spl.derivative()(x) and spl(x)
SplineDerivative(X, Y, x) ==
    LET k == Piece(X, x)
    IN  RDiv(RSub(Y[k + 1], Y[k]), RSub(X[k + 1], X[k]))
SplineValue(X, Y, x) ==
    LET k == Piece(X, x)
    IN  RAdd(Y[k], RMul(SplineDerivative(X, Y, x), RSub(x, X[k])))

\* line 133: the rows with sums[phase] > 0
ValidRows(sms, phase) == Where([r \in 1..Len(sms[phase]) |-> RLess(Zero, sms[phase][r])], 1)

\* line 134: a fit is made when the mask holds at least one row
FitAttempted(valid) == Len(valid) > 0

\* lines 127-130: the column is an element of an active phase, not the base
FitTarget(c, a, phs) ==
    /\ parse_element_content(c) # NoneVal
    /\ parse_element_content(c)[1][1] # a.base
    /\ parse_element_content(c)[1][2] \in Elems(phs)

\* lines 127-139 for column k: the dictionaries after it, or the exception
FitStep(cols, d, a, phs, sms, k, st) ==
    IF ~FitTarget(cols[k], a, phs) THEN st
    ELSE LET elem == parse_element_content(cols[k])[1][1]
             phase == parse_element_content(cols[k])[1][2]
             valid == ValidRows(sms, phase)
             X == [r \in 1..Len(valid) |-> d[valid[r]][1]]
             Y == [r \in 1..Len(valid) |-> RDiv(d[valid[r]][k], sms[phase][valid[r]])]
             x == a.T0[1].v
         IN  IF ~FitAttempted(valid) THEN st
             ELSE IF ~SplineAccepts(X) THEN [st EXCEPT !.err = "SplineError"]
             ELSE [st EXCEPT
                     !.slopes[phase] = (elem :> RInv(SplineDerivative(X, Y, x))) @@ @,
                     !.C[phase] = (elem :> SplineValue(X, Y, x)) @@ @]

\* lines 120-121
EmptyFit(phs) ==
    [C |-> [p \in Elems(phs) |-> <<>>], slopes |-> [p \in Elems(phs) |-> <<>>],
     err |-> "none"]

Extract ==
    /\ pc = "extract"
    /\ LET ex == Extracted(columns, data, args.skip_phases)
       IN  IF args.base \in Elems(ex.elements)
           THEN /\ elements' = Remove(ex.elements, args.base)
                /\ phases' = ex.phases
                /\ out' = out \o <<"Elements", "Phases">>
                /\ pc' = "normalize"
                /\ err' = err
           ELSE /\ err' = "ValueError"
                /\ pc' = "failed"
                /\ UNCHANGED <<elements, phases, out>>
    /\ UNCHANGED <<txtfile, columns, data, uniq, ind, cnt, todo, argv, args, i, sol,
                   liq, deltaT, sums, C, slopes, ranges>>

Normalize ==
    /\ pc = "normalize"
    /\ sums' = Normalized(columns, data, phases)
    /\ C' = EmptyFit(phases).C
    /\ slopes' = EmptyFit(phases).slopes
    /\ i' = 1
    /\ pc' = "fit"
    /\ UNCHANGED <<txtfile, columns, data, uniq, ind, cnt, todo, argv, args, sol, liq,
                   deltaT, out, err, elements, phases, ranges>>

\* one pass of the loop of lines 122-146
FitColumn ==
    /\ pc = "fit" /\ i <= Len(columns)
    /\ LET st == FitStep(columns, data, args, phases, sums, i,
                         [C |-> C, slopes |-> slopes, err |-> "none"])
       IN  /\ C' = st.C
           /\ slopes' = st.slopes
           /\ err' = st.err
           /\ pc' = IF st.err = "none" THEN "fit" ELSE "failed"
           /\ i' = IF st.err = "none" THEN i + 1 ELSE i
           /\ out' = IF FitTarget(columns[i], args, phases) /\ st.err = "none"
                        /\ FitAttempted(ValidRows(sums, parse_element_content(columns[i])[1][2]))
                     THEN Append(out, "C(T0)") ELSE out
    /\ UNCHANGED <<txtfile, columns, data, uniq, ind, cnt, todo, argv, args, sol, liq,
                   deltaT, elements, phases, sums, ranges>>

\* line 159: C['LIQUID'] raises KeyError when LIQUID is no active phase
Composition ==
    /\ pc = "fit" /\ i > Len(columns)
    /\ IF "LIQUID" \in Elems(phases)
       THEN pc' = "freeze" /\ err' = err /\ i' = 1
       ELSE pc' = "failed" /\ err' = "KeyError: 'LIQUID'" /\ i' = i
    /\ UNCHANGED <<txtfile, columns, data, uniq, ind, cnt, todo, argv, args, sol, liq,
                   deltaT, out, elements, phases, sums, C, slopes, ranges>>

(* 8. Calculate a single-phase freezing range *)

\* lines 168-169 raise KeyError for an element without an entry
HasEntries(els, Cm, Sm, phase) ==
    \A e \in Elems(els) :
        /\ e \in DOMAIN Sm["LIQUID"] /\ e \in DOMAIN Sm[phase]
        /\ e \in DOMAIN Cm["LIQUID"] /\ e \in DOMAIN Cm[phase]

\* lines 166-171: sumL and sumS after the first k elements
RECURSIVE FreezeSums(_, _, _, _, _)
FreezeSums(els, Cm, Sm, phase, k) ==
    IF k = 0 THEN [L |-> Zero, S |-> Zero]
    ELSE LET acc == FreezeSums(els, Cm, Sm, phase, k - 1)
             mL == Sm["LIQUID"][els[k]]
             mS == Sm[phase][els[k]]
             CL == Cm["LIQUID"][els[k]]
             CS == Cm[phase][els[k]]
         IN  [L |-> RAdd(acc.L, RDiv(RSub(CS, CL), mL)),
              S |-> RAdd(acc.S, RDiv(RSub(CS, CL), mS))]

\* line 176 with 1/sumL + 1/sumS
dT2Plus(CL, CS, sumL, sumS) ==
    RMul(RMul(CL, RSub(CS, CL)), RAdd(RInv(sumL), RInv(sumS)))

\* line 176
dT1(CL, CS, sumL, sumS) == RDiv(RMul(RSub(CS, CL), RSub(CS, CL)), sumS)
dT2(CL, CS, sumL, sumS) ==
    RMul(RMul(CL, RSub(CS, CL)), RSub(RInv(sumL), RInv(sumS)))

\* lines 172-177: DeltaT1 and DeltaT2 after the first k elements
RECURSIVE FreezeDeltas(_, _, _, _, _, _)
FreezeDeltas(els, Cm, phase, sumL, sumS, k) ==
    IF k = 0 THEN [DeltaT1 |-> Zero, DeltaT2 |-> Zero]
    ELSE LET acc == FreezeDeltas(els, Cm, phase, sumL, sumS, k - 1)
             CL == Cm["LIQUID"][els[k]]
             CS == Cm[phase][els[k]]
         IN  [DeltaT1 |-> RAdd(acc.DeltaT1, dT1(CL, CS, sumL, sumS)),
              DeltaT2 |-> RAdd(acc.DeltaT2, dT2(CL, CS, sumL, sumS))]

\* line 182: what is printed for the phase
FreezingRange(els, Cm, Sm, phase) ==
    LET sm == FreezeSums(els, Cm, Sm, phase, Len(els))
        dl == FreezeDeltas(els, Cm, phase, sm.L, sm.S, Len(els))
    IN  [phase |-> phase, K |-> RDiv(sm.L, sm.S),
         DeltaT1 |-> dl.DeltaT1, DeltaT2 |-> dl.DeltaT2]

\* lines 164-165
FreezeLiquid ==
    /\ pc = "freeze" /\ i <= Len(phases)
    /\ phases[i] = "LIQUID"
    /\ i' = i + 1
    /\ UNCHANGED <<pc, txtfile, columns, data, uniq, ind, cnt, todo, argv, args, sol,
                   liq, deltaT, out, err, elements, phases, sums, C, slopes, ranges>>

\* lines 166-182 for a solid phase
FreezePhase ==
    /\ pc = "freeze" /\ i <= Len(phases)
    /\ phases[i] # "LIQUID"
    /\ elements # <<>>
    /\ HasEntries(elements, C, slopes, phases[i])
    /\ ranges' = Append(ranges, FreezingRange(elements, C, slopes, phases[i]))
    /\ out' = Append(out, "K")
    /\ i' = i + 1
    /\ UNCHANGED <<pc, txtfile, columns, data, uniq, ind, cnt, todo, argv, args, sol,
                   liq, deltaT, err, elements, phases, sums, C, slopes>>

\* lines 168-169: a missing entry raises KeyError
FreezeKeyError ==
    /\ pc = "freeze" /\ i <= Len(phases)
    /\ phases[i] # "LIQUID"
    /\ ~HasEntries(elements, C, slopes, phases[i])
    /\ err' = "KeyError: element"
    /\ pc' = "failed"
    /\ UNCHANGED <<txtfile, columns, data, uniq, ind, cnt, todo, argv, args, i, sol,
                   liq, deltaT, out, elements, phases, sums, C, slopes, ranges>>

\* line 182 with no element: sumL/sumS is the integer division 0/0
FreezeZeroDivision ==
    /\ pc = "freeze" /\ i <= Len(phases)
    /\ phases[i] # "LIQUID"
    /\ elements = <<>>
    /\ err' = "ZeroDivisionError"
    /\ pc' = "failed"
    /\ UNCHANGED <<txtfile, columns, data, uniq, ind, cnt, todo, argv, args, i, sol,
                   liq, deltaT, out, elements, phases, sums, C, slopes, ranges>>

\* the loop of line 163 ends
FreezeEnd ==
    /\ pc = "freeze" /\ i > Len(phases)
    /\ pc' = "estimated"
    /\ UNCHANGED <<txtfile, columns, data, uniq, ind, cnt, todo, argv, args, i, sol,
                   liq, deltaT, out, err, elements, phases, sums, C, slopes, ranges>>

(* The fitter and the estimator, from a filtered table *)

MaxFitRows == 2

FitTemps == <<R(1650, 1), R(1680, 1), R(1700, 1)>>

ElementHeaders ==
    {MassPctHeader("Fe", "LIQUID"), MassPctHeader("Cr", "LIQUID"),
     GramHeader("Cr", "LIQUID"), MassPctHeader("Cr", "FCC_A1")}

\* a Temperature header and three different element headers, in any order
FitHeaderLines ==
    {<<TemperatureHeader(<<"K">>), a, b, c>> :
        a \in ElementHeaders, b \in ElementHeaders, c \in ElementHeaders}
    \ {h \in [1..4 -> ElementHeaders \cup {TemperatureHeader(<<"K">>)}] :
          h[2] = h[3] \/ h[2] = h[4] \/ h[3] = h[4]}

FitCells == {NaN, Zero, One}

\* rows at increasing temperatures, as the deduplication and the filter leave them
FitTables ==
    UNION {{[r \in 1..m |-> <<FitTemps[r]>> \o cells[r]] :
               cells \in [1..m -> [1..3 -> FitCells]]} : m \in 1..MaxFitRows}

FitCommandLines ==
    [T : {Range(R(1600, 1), R(1800, 1))},
     T0 : {Some(Temp0(R(1660, 1), Zero)), Some(Temp0(R(1680, 1), Zero))},
     tail : {R(1, 2)},
     manual : {TRUE},
     base : {"Fe"},
     skip_phases : {{}, {"FCC_A1"}}]

InitFit ==
    /\ pc = "extract"
    /\ argv \in FitCommandLines
    /\ args = argv
    /\ columns \in FitHeaderLines
    /\ data \in FitTables
    /\ txtfile = data
    /\ NotDeduplicated /\ NotAnalyzed /\ NotFitted

NextFit ==
    \/ Extract \/ Normalize \/ FitColumn \/ Composition
    \/ FreezeLiquid \/ FreezePhase \/ FreezeKeyError \/ FreezeEnd

SpecFit == InitFit /\ [][NextFit]_vars

(* The estimator alone, from any dictionaries the fitter can leave *)

MaxElements == 2

ElementNames == <<"Cr", "Ni", "Mn">>

\* a concentration at T0 and a path slope
Entries ==
    {[c |-> R(1, 50), m |-> R(10, 1)], [c |-> R(1, 50), m |-> R(-5, 1)],
     [c |-> R(1, 20), m |-> R(-5, 1)], [c |-> R(1, 20), m |-> Inf]}

\* the dictionaries of one phase: entries for some of the elements
PhaseEntries(els) == UNION {[S -> Entries] : S \in SUBSET Elems(els)}

InitFreeze ==
    /\ pc = "freeze"
    /\ i = 1
    /\ argv \in {a \in FitCommandLines : a.skip_phases = {} /\ a.T0[1].v = R(1660, 1)}
    /\ args = argv
    /\ columns = <<>> /\ data = <<>> /\ txtfile = <<>> /\ sums = <<>>
    /\ NotDeduplicated
    /\ sol = NoneVal /\ liq = NoneVal /\ deltaT = NoneVal
    /\ out = <<>> /\ err = "none" /\ ranges = <<>>
    /\ elements \in {SubSeq(ElementNames, 1, n) : n \in 0..MaxElements}
    /\ phases \in {<<"LIQUID", "FCC_A1">>, <<"FCC_A1", "LIQUID">>}
    /\ \E l \in PhaseEntries(elements), f \in PhaseEntries(elements) :
          /\ C = [p \in Elems(phases) |->
                    [e \in DOMAIN (IF p = "LIQUID" THEN l ELSE f) |->
                        (IF p = "LIQUID" THEN l ELSE f)[e].c]]
          /\ slopes = [p \in Elems(phases) |->
                    [e \in DOMAIN (IF p = "LIQUID" THEN l ELSE f) |->
                        (IF p = "LIQUID" THEN l ELSE f)[e].m]]

NextFreeze ==
    FreezeLiquid \/ FreezePhase \/ FreezeKeyError \/ FreezeZeroDivision \/ FreezeEnd

SpecFreeze == InitFreeze /\ [][NextFreeze]_vars

----------------------------------------------------------------------------
(* Claims about the deduplication *)

\* the rows of d that carry temperature t
Group(d, t) == {k \in 1..Len(d) : d[k][1] = t}

\* the first row of t's group with the most non-missing fields
BestOfGroup(d, t) ==
    CHOOSE k \in Group(d, t) :
        /\ \A j \in Group(d, t) : CountNonMissing(d[j]) <= CountNonMissing(d[k])
        /\ \A j \in Group(d, t) : j < k => CountNonMissing(d[j]) < CountNonMissing(d[k])

(* C1: the deduplicated table holds exactly one row per distinct temperature
   of the input, rows in any order, and for a temperature that several rows
   carry the row kept is the first of them with the most non-missing fields. *)
C1_Deduplication ==
    Deduplicated =>
        /\ \A k \in 1..Len(data) : data[k][1] \in Temperatures(txtfile)
        /\ \A t \in Temperatures(txtfile) :
              /\ Cardinality(Group(data, t)) = 1
              /\ Cardinality(Group(txtfile, t)) > 1 =>
                    \A k \in Group(data, t) : data[k] = txtfile[BestOfGroup(txtfile, t)]

\* the same, for inputs whose equal temperatures are on adjacent rows
Adjacent(d) ==
    \A a, b \in 1..Len(d) : (a < b /\ d[a][1] = d[b][1]) =>
        \A m \in a..b : d[m][1] = d[a][1]

DedupAdjacentOnly ==
    (Deduplicated /\ Adjacent(txtfile)) =>
        /\ \A k \in 1..Len(data) : data[k][1] \in Temperatures(txtfile)
        /\ \A t \in Temperatures(txtfile) :
              /\ Cardinality(Group(data, t)) = 1
              /\ \A k \in Group(data, t) : data[k] = txtfile[BestOfGroup(txtfile, t)]

----------------------------------------------------------------------------
(* Claims about the interval selector *)

HasLiquid == \E k \in 1..Len(columns) : parse_phase_fraction(columns[k]) = Some("LIQUID")
LiquidColumn ==
    CHOOSE k \in 1..Len(columns) : parse_phase_fraction(columns[k]) = Some("LIQUID")
TemperatureColumn == CHOOSE k \in 1..Len(columns) : columns[k].kind = "temperature"

\* the last row of a column that is missing, the first that is exactly 1
LastMissing(col) ==
    CHOOSE k \in 1..Len(col) : isnan(col[k]) /\ \A j \in 1..Len(col) : j > k => ~isnan(col[j])
FirstFull(col) ==
    CHOOSE k \in 1..Len(col) : col[k] = One /\ \A j \in 1..Len(col) : j < k => col[j] # One

\* the table is as the interval selector saw it
Unfiltered == pc \in {"analyze", "filter", "failed"}

(* C2: solidus is the temperature of the last row whose LIQUID amount is
   missing, liquidus the temperature of the first row whose LIQUID amount is
   exactly 1, deltaT their difference; the liquid column [missing, missing,
   0.5, 1, 1] at T = [1600, 1650, 1680, 1700, 1750] gives 1650, 1700 and 50. *)
C2_SolidusLiquidus ==
    /\ (Unfiltered /\ sol # NoneVal) =>
          LET T == Column(data, 1)
              L == Column(data, LiquidColumn)
          IN  /\ sol = Some(T[LastMissing(L)])
              /\ liq = Some(T[FirstFull(L)])
              /\ deltaT = Some(RSub(T[FirstFull(L)], T[LastMissing(L)]))
    /\ (Unfiltered /\ sol # NoneVal /\ data = ScenarioB) =>
          /\ sol = Some(R(1650, 1))
          /\ liq = Some(R(1700, 1))
          /\ deltaT = Some(R(50, 1))

C2_Witness ==
    /\ pc = "filter" /\ data = ScenarioB
    /\ sol = Some(R(1650, 1)) /\ liq = Some(R(1700, 1)) /\ deltaT = Some(R(50, 1))

\* x <= t0 and t0 < x for a reference temperature t0 = v - eps/1e10
T0AtLeast(t0, x) == RLess(x, t0.v) \/ (x = t0.v /\ RLeq(t0.eps, Zero))
T0Below(t0, x) == RLess(t0.v, x) \/ (t0.v = x /\ RLess(Zero, t0.eps))

\* the liquid column is missing at and below the solidus, 1 at and above the liquidus
Consistent ==
    \A k \in 1..Len(data) :
        /\ RLeq(data[k][1], sol[1]) => isnan(data[k][LiquidColumn])
        /\ RLeq(liq[1], data[k][1]) => data[k][LiquidColumn] = One

WindowOrdered ==
    /\ args.T = Range(RSub(sol[1], RMul(argv.tail, deltaT[1])),
                      RAdd(liq[1], RMul(argv.tail, deltaT[1])))
    /\ T0AtLeast(args.T0[1], sol[1])
    /\ T0Below(args.T0[1], liq[1])
    /\ RLeq(liq[1], args.T.max)
    /\ RLeq(args.T.min, sol[1])

(* C3 as stated: in automatic mode, for a liquid column missing below the
   solidus and 1 at and after the liquidus, solidus <= T0 < liquidus <=
   window.max and window.min <= solidus, the window being
   [solidus - tail*deltaT, liquidus + tail*deltaT]. *)
C3_WindowSelection_Original ==
    (pc = "filter" /\ ~argv.manual /\ sol # NoneVal /\ Consistent) => WindowOrdered

(* C3 amended: the same, when no reference temperature is given on the
   command line and tail >= 0. *)
C3_WindowSelection ==
    (pc = "filter" /\ ~argv.manual /\ sol # NoneVal /\ Consistent
        /\ argv.T0 = NoneVal /\ RLeq(Zero, argv.tail)) => WindowOrdered

C3_Witness ==
    /\ pc = "filter" /\ ~argv.manual /\ argv.T0 = NoneVal /\ argv.tail = R(1, 2)
    /\ data = ScenarioB /\ Consistent
    /\ args.T = Range(R(1625, 1), R(1725, 1))
    /\ args.T0 = Some(Temp0(R(1700, 1), R(50, 1)))

\* the unit between the brackets of the Temperature header holds the character C
DeclaredCelsius == \E c \in 1..Len(columns[TemperatureColumn].unit) :
                       columns[TemperatureColumn].unit[c] = "C"
InKelvin(t) == IF DeclaredCelsius THEN RAdd(t, KelvinOffset) ELSE t
TemperatureAnalyzed ==
    pc \in {"filter", "filtered", "failed"} \/ (pc = "analyze" /\ i > TemperatureColumn)

(* C4: if the unit of the Temperature header holds the character 'C', every
   temperature the later steps use (the table's, solidus, liquidus) is the
   input temperature + 273.15, added once; otherwise it is the input
   temperature. *)
C4_UnitConversion ==
    TemperatureAnalyzed =>
        /\ \A k \in 1..Len(data) : \E r \in 1..Len(txtfile) :
              data[k] = [txtfile[r] EXCEPT ![1] = InKelvin(@)]
        /\ sol # NoneVal =>
              /\ sol[1] \in {InKelvin(t) : t \in Temperatures(txtfile)}
              /\ liq[1] \in {InKelvin(t) : t \in Temperatures(txtfile)}

\* the same with Celsius read as the code reads it: the unit is the string "C"
UnitConversionExactUnit ==
    TemperatureAnalyzed =>
        \A k \in 1..Len(data) : \E r \in 1..Len(txtfile) :
            data[k] = [txtfile[r] EXCEPT ![1] =
                          IF columns[TemperatureColumn].unit = <<"C">>
                          THEN RAdd(@, KelvinOffset) ELSE @]

LiquidAnalyzed ==
    HasLiquid /\ (pc \in {"filter", "failed"} \/ (pc = "analyze" /\ i > LiquidColumn))

NoBound ==
    \/ \A k \in 1..Len(data) : ~isnan(data[k][LiquidColumn])
    \/ \A k \in 1..Len(data) : data[k][LiquidColumn] # One

Degenerate ==
    \/ NoBound
    \/ LET T == Column(data, 1)
           L == Column(data, LiquidColumn)
       IN  RLeq(RSub(T[FirstFull(L)], T[LastMissing(L)]), Zero)

FailedBeforeReport == pc = "failed" /\ out = <<>> /\ args = argv

(* C7: in automatic mode, when the LIQUID column has no missing row, or no row
   equal to 1, or liquidus - solidus <= 0, the run fails, before any console
   line is printed and before a window or T0 is derived. *)
C7_DegenerateInterval ==
    (~argv.manual /\ LiquidAnalyzed /\ Degenerate) => FailedBeforeReport

\* the part of C7 the code does: a bound that is not found ends the run
MissingBoundFails ==
    (LiquidAnalyzed /\ NoBound) => FailedBeforeReport

(* C10: with no T0 given and a LIQUID column found, T0 = liquidus -
   deltaT*1e-10 in automatic and in manual mode; T0 is the midpoint of the
   window only when no LIQUID column is found; a T0 that is given, whatever
   its value, is kept. *)
C10_DefaultT0 ==
    pc \in {"filter", "filtered"} =>
        /\ (argv.T0 = NoneVal /\ HasLiquid) => args.T0 = Some(Temp0(liq[1], deltaT[1]))
        /\ (argv.T0 = NoneVal /\ args.T0 = Some(Midpoint(args.T))) => ~HasLiquid
        /\ argv.T0 # NoneVal => args.T0 = argv.T0

\* what the code does: line 77 is inside "if not args.manual", and tests truth
T0AsCoded ==
    pc \in {"filter", "filtered"} =>
        args.T0 = IF Truthy(argv.T0) THEN argv.T0
                  ELSE IF HasLiquid /\ ~argv.manual
                       THEN Some(Temp0(liq[1], deltaT[1]))
                       ELSE Some(Midpoint(args.T))

----------------------------------------------------------------------------
(* Claims about the fitter *)

\* the columns after the first, rearranged
ColumnOrders(n) ==
    {p \in [1..n -> 1..n] : p[1] = 1 /\ \A a, b \in 1..n : p[a] = p[b] => a = b}
Rearranged(row, p) == [k \in 1..Len(row) |-> row[p[k]]]

\* lines 122-139 for the columns 1..k
RECURSIVE FitLoop(_, _, _, _, _, _)
FitLoop(cols, d, a, phs, sms, k) ==
    IF k = 0 THEN EmptyFit(phs)
    ELSE LET st == FitLoop(cols, d, a, phs, sms, k - 1)
         IN  IF st.err # "none" THEN st ELSE FitStep(cols, d, a, phs, sms, k, st)

\* steps 4, 5 and 7 on a table
Fitted(cols, d, a) ==
    LET ex == Extracted(cols, d, a.skip_phases)
    IN  IF a.base \notin Elems(ex.elements)
        THEN [C |-> <<>>, slopes |-> <<>>, err |-> "ValueError"]
        ELSE FitLoop(cols, d, a, ex.phases, Normalized(cols, d, ex.phases), Len(cols))

FitComplete == pc = "fit" /\ i > Len(columns)

(* C6: for any rearrangement of the columns other than the temperature,
   headers and values together, the fit gives the same concentration and
   slope for every (element, phase); the table may hold a mass-percent and a
   gram column of the same element and phase. *)
C6_ColumnOrderInvariance ==
    FitComplete =>
        \A p \in ColumnOrders(Len(columns)) :
            LET other == Fitted(Rearranged(columns, p),
                                [r \in 1..Len(data) |-> Rearranged(data[r], p)], args)
            IN  other.err = "none" /\ other.C = C /\ other.slopes = slopes

\* no two columns give the same element in the same phase
OnePerPair ==
    \A a, b \in 1..Len(columns) :
        (a # b /\ parse_element_content(columns[a]) # NoneVal)
            => parse_element_content(columns[a]) # parse_element_content(columns[b])

\* the invariance holds when every (element, phase) has one column
OrderInvariantOnePerPair ==
    (FitComplete /\ OnePerPair) =>
        \A p \in ColumnOrders(Len(columns)) :
            LET other == Fitted(Rearranged(columns, p),
                                [r \in 1..Len(data) |-> Rearranged(data[r], p)], args)
            IN  other.err = "none" /\ other.C = C /\ other.slopes = slopes

\* column k has been visited by the loop of step 7, or the loop stopped at it
Visited(k) ==
    \/ pc \in {"freeze", "estimated"}
    \/ pc = "fit" /\ k < i
    \/ pc = "failed" /\ err = "SplineError" /\ k <= i
    \/ pc = "failed" /\ err \in {"KeyError: 'LIQUID'", "KeyError: element"}

\* the rows of column k's phase with a positive sum
ValidCount(k) ==
    Cardinality({r \in 1..Len(data) :
                    RLess(Zero, sums[parse_element_content(columns[k])[1][2]][r])})

(* C8: a pair (element, active phase), element not the base, with fewer than
   2 rows of positive phase sum is skipped: no entry is made for it, no
   spline is fitted and the run goes on to the next pair. *)
C8_FailSoftFit ==
    \A k \in 1..Len(columns) :
        (Visited(k) /\ FitTarget(columns[k], args, phases) /\ ValidCount(k) < 2) =>
            /\ ~(pc = "failed" /\ err = "SplineError" /\ i = k)
            /\ parse_element_content(columns[k])[1][1]
                  \notin DOMAIN C[parse_element_content(columns[k])[1][2]]

\* the part of C8 the code does: a pair with no valid row is skipped
NoValidRowSkipped ==
    \A k \in 1..Len(columns) :
        (Visited(k) /\ FitTarget(columns[k], args, phases) /\ ValidCount(k) = 0) =>
            /\ ~(pc = "failed" /\ err = "SplineError" /\ i = k)
            /\ parse_element_content(columns[k])[1][1]
                  \notin DOMAIN C[parse_element_content(columns[k])[1][2]]

----------------------------------------------------------------------------
(* Claims about the freezing-range estimator *)

\* the sum of the values of a function
RECURSIVE Total(_)
Total(f) ==
    IF DOMAIN f = {} THEN Zero
    ELSE LET e == CHOOSE e \in DOMAIN f : TRUE
         IN  RAdd(f[e], Total([x \in DOMAIN f \ {e} |-> f[x]]))

\* K, DeltaT1 and DeltaT2 of phase P over the set E of elements, as formulas
SumLOver(E, P) == Total([e \in E |-> RDiv(RSub(C[P][e], C["LIQUID"][e]), slopes["LIQUID"][e])])
SumSOver(E, P) == Total([e \in E |-> RDiv(RSub(C[P][e], C["LIQUID"][e]), slopes[P][e])])
RangeOver(E, P) ==
    [phase |-> P,
     K |-> RDiv(SumLOver(E, P), SumSOver(E, P)),
     DeltaT1 |-> Total([e \in E |->
                    RDiv(RMul(RSub(C[P][e], C["LIQUID"][e]), RSub(C[P][e], C["LIQUID"][e])),
                         SumSOver(E, P))]),
     DeltaT2 |-> Total([e \in E |->
                    RMul(RMul(C["LIQUID"][e], RSub(C[P][e], C["LIQUID"][e])),
                         RSub(RDiv(One, SumLOver(E, P)), RDiv(One, SumSOver(E, P))))])]

\* the estimator has been at phase k
Estimated(k) ==
    \/ pc = "estimated"
    \/ pc = "freeze" /\ k < i
    \/ pc = "failed" /\ err \in {"KeyError: element", "ZeroDivisionError"} /\ k <= i

Complete(P) == \A e \in Elems(elements) : e \in DOMAIN C["LIQUID"] /\ e \in DOMAIN C[P]

ScenarioC ==
    /\ elements = <<"Cr">>
    /\ "FCC_A1" \in Elems(phases)
    /\ Complete("FCC_A1")
    /\ C["LIQUID"]["Cr"] = R(1, 50) /\ C["FCC_A1"]["Cr"] = R(1, 20)
    /\ slopes["LIQUID"]["Cr"] = R(10, 1) /\ slopes["FCC_A1"]["Cr"] = R(-5, 1)

(* C5: for each solid phase P the printed K is sumL/sumS, DeltaT1 the sum of
   (CS-CL)^2/sumS and DeltaT2 the sum of CL*(CS-CL)*(1/sumL - 1/sumS) over the
   elements, sumL and sumS being the sums of (CS-CL)/mL and (CS-CL)/mS; one
   element with CL = 0.02, CS = 0.05, mL = 10, mS = -5 gives K = -0.5,
   DeltaT1 = -0.15, DeltaT2 = 0.3. *)
C5_FreezingRange ==
    (pc \in {"freeze", "estimated"} \/ Estimated(1)) =>
        /\ \A k \in 1..Len(phases) :
              (Estimated(k) /\ phases[k] # "LIQUID" /\ elements # <<>> /\ Complete(phases[k]))
                  => \E n \in 1..Len(ranges) :
                        ranges[n] = RangeOver(Elems(elements), phases[k])
        /\ \A n \in 1..Len(ranges) :
              ranges[n] = RangeOver(Elems(elements), ranges[n].phase)
        /\ (ScenarioC /\ pc = "estimated") =>
              ranges = << [phase |-> "FCC_A1", K |-> R(-1, 2),
                           DeltaT1 |-> R(-3, 20), DeltaT2 |-> R(3, 10)] >>

C5_Witness ==
    /\ pc = "estimated" /\ ScenarioC
    /\ ranges = << [phase |-> "FCC_A1", K |-> R(-1, 2),
                    DeltaT1 |-> R(-3, 20), DeltaT2 |-> R(3, 10)] >>

\* the elements with an entry for LIQUID and for P
Contributing(P) == {e \in Elems(elements) : e \in DOMAIN C["LIQUID"] /\ e \in DOMAIN C[P]}

(* C9: for each solid phase P, an element without an entry for LIQUID or for
   P is left out of the sums without a message, and K, DeltaT1 and DeltaT2 of
   P are still reported, over the elements that remain; the run does not
   fail.  (Stated for the phases where some element remains.) *)
C9_MissingEntryExcluded ==
    (pc \in {"freeze", "estimated"} \/ Estimated(1)) =>
        \A k \in 1..Len(phases) :
            (Estimated(k) /\ phases[k] # "LIQUID" /\ ~Complete(phases[k])
                /\ Contributing(phases[k]) # {}) =>
                /\ pc # "failed"
                /\ \E n \in 1..Len(ranges) :
                      ranges[n] = RangeOver(Contributing(phases[k]), phases[k])

====
